---- MODULE Spec2Model ----
(***************************************************************************)
(* Model of easybuild/easyblocks/generic/cargo.py:                         *)
(*   - generate_crate_list (lines 184-207) and the __main__ block          *)
(*     (lines 210-219), under the specification Spec;                      *)
(*   - Cargo.extract_step (lines 89-111), under SpecExtract.               *)
(* A TOML table is a record; an absent key is an absent field, so that     *)
(* `'source' in dep` is "source" \in DOMAIN dep and a subscript of an       *)
(* absent key is the KeyError the Python code raises.                      *)
(***************************************************************************)
EXTENDS Integers, Sequences, FiniteSets, TLC

VARIABLES
    cargo_toml,       \* parsed Cargo.toml (the file on disk)
    cargo_lock,       \* parsed Cargo.lock (the file on disk)
    pc,               \* "start" | "loop" | "returned" | "exit" | "error" | "idle"
    app_name,         \* local of generate_crate_list
    deps,             \* local of generate_crate_list
    i,                \* position of the for loop in deps (1-based)
    app_in_cratesio,  \* local of generate_crate_list
    crates,           \* local of generate_crate_list
    other_crates,     \* local of generate_crate_list
    ret,              \* <<>> while nothing was returned, else <<the returned triple>>
    prev_ret,         \* what the previous invocation returned (same encoding)
    calls,            \* number of invocations started
    out,              \* lines printed to standard output
    src,              \* self.src of the Cargo easyblock
    offline,          \* self.cfg['offline']
    archive,          \* top-level entries each source archive unpacks to
    builddir,         \* os.listdir(self.builddir)
    existing_dirs,    \* local of extract_step
    srcdir,           \* local of extract_step
    new_dirs,         \* local of extract_step
    k,                \* number of sources the for loop of extract_step has taken
    chk_writes,       \* the write_file calls of extract_step, in order
    epc               \* "extract" | "done" | "error" | "idle"

crate_vars == <<cargo_toml, cargo_lock, pc, app_name, deps, i, app_in_cratesio,
                crates, other_crates, ret, prev_ret, calls, out>>
extract_vars == <<src, offline, archive, builddir, existing_dirs, srcdir, new_dirs,
                  k, chk_writes, epc>>
vars == <<crate_vars, extract_vars>>

\* Bounds of the model.
MaxDeps == 3
MaxCalls == 2
MaxSrc == 3

(***************************************************************************)
(* generate_crate_list                                                     *)
(***************************************************************************)

CRATESIO_INDEX == "registry+https://github.com/rust-lang/crates.io-index"

OTHER_SOURCE == "git+https://example.org/repo"

Names == {"foo", "bar"}
Versions == {"1.0", "2.0"}

\* The [[package]] tables a Cargo.lock can hold: with name and version, source optional,
\* and tables that lack name or version.
LockEntries ==
    {[name |-> n, version |-> v] : n \in Names, v \in Versions}
    \cup {[name |-> n, version |-> v, source |-> s] :
              n \in Names, v \in Versions, s \in {CRATESIO_INDEX, OTHER_SOURCE}}
    \cup {[version |-> "1.0"], [name |-> "bar"], [name |-> "bar", source |-> CRATESIO_INDEX]}

LockLists == UNION {[1..n -> LockEntries] : n \in 0..MaxDeps}

Descriptors == {[package |-> [name |-> "foo"]], [package |-> [version |-> "1.0"]]}

LockFiles == {[package |-> l] : l \in LockLists} \cup {[version |-> "3"]}

HasKey(table, key) == key \in DOMAIN table

\* line 200: 'source' in dep and dep['source'] == 'registry+...'
IsCratesIo_SourceOptional(dep) == ~HasKey(dep, "source") \/ dep.source = CRATESIO_INDEX
IsCratesIo(dep) == HasKey(dep, "source") /\ dep.source = CRATESIO_INDEX

\* line 201: name == app_name
IsApp_Never(name, app) == FALSE
IsApp(name, app) == name = app

\* lines 204, 206: list.append((name, version))
AppendCrate_Front(list, name, version) == <<<<name, version>>>> \o list
AppendCrate(list, name, version) == Append(list, <<name, version>>)

\* lines 201-204: the branch taken for a crates.io entry
OnCratesIo_KeepApp(name, version) ==
    /\ app_in_cratesio' = (app_in_cratesio \/ IsApp(name, app_name))
    /\ crates' = AppendCrate(crates, name, version)
    /\ other_crates' = other_crates
OnCratesIo_AnyName(name, version) ==
    /\ app_in_cratesio' = TRUE
    /\ crates' = IF IsApp(name, app_name) THEN crates ELSE AppendCrate(crates, name, version)
    /\ other_crates' = other_crates
OnCratesIo(name, version) ==
    IF IsApp(name, app_name)
    THEN /\ app_in_cratesio' = TRUE
         /\ UNCHANGED <<crates, other_crates>>
    ELSE /\ crates' = AppendCrate(crates, name, version)
         /\ UNCHANGED <<app_in_cratesio, other_crates>>

\* lines 205-206: the branch taken for any other entry
OnOther_Both(name, version) ==
    /\ other_crates' = AppendCrate(other_crates, name, version)
    /\ crates' = AppendCrate(crates, name, version)
    /\ UNCHANGED app_in_cratesio
OnOther(name, version) ==
    /\ other_crates' = AppendCrate(other_crates, name, version)
    /\ UNCHANGED <<app_in_cratesio, crates>>

\* lines 186-196: load both manifests, read package.name and the lock list, set the locals.
\* A missing key raises KeyError out of the function.
Call_KeepLists ==
    /\ pc = "start"
    /\ IF HasKey(cargo_toml, "package") /\ HasKey(cargo_toml.package, "name")
          /\ HasKey(cargo_lock, "package")
       THEN /\ app_name' = cargo_toml.package.name
            /\ deps' = cargo_lock.package
            /\ app_in_cratesio' = FALSE
            /\ UNCHANGED <<crates, other_crates>>
            /\ i' = 1
            /\ pc' = "loop"
       ELSE /\ pc' = "error"
            /\ UNCHANGED <<app_name, deps, app_in_cratesio, crates, other_crates, i>>
    /\ ret' = <<>>
    /\ UNCHANGED <<cargo_toml, cargo_lock, prev_ret, calls, out, extract_vars>>
Call ==
    /\ pc = "start"
    /\ IF HasKey(cargo_toml, "package") /\ HasKey(cargo_toml.package, "name")
          /\ HasKey(cargo_lock, "package")
       THEN /\ app_name' = cargo_toml.package.name
            /\ deps' = cargo_lock.package
            /\ app_in_cratesio' = FALSE
            /\ crates' = <<>>
            /\ other_crates' = <<>>
            /\ i' = 1
            /\ pc' = "loop"
       ELSE /\ pc' = "error"
            /\ UNCHANGED <<app_name, deps, app_in_cratesio, crates, other_crates, i>>
    /\ ret' = <<>>
    /\ UNCHANGED <<cargo_toml, cargo_lock, prev_ret, calls, out, extract_vars>>

\* lines 197-206: one iteration of the for loop. dep['name'] or dep['version'] of a table
\* without that key raises KeyError out of the function.
LoopStep_SkipBad ==
    /\ pc = "loop"
    /\ i <= Len(deps)
    /\ LET dep == deps[i] IN
         IF ~HasKey(dep, "name") \/ ~HasKey(dep, "version")
         THEN /\ i' = i + 1
              /\ UNCHANGED <<pc, app_in_cratesio, crates, other_crates>>
         ELSE /\ IF IsCratesIo(dep)
                 THEN OnCratesIo(dep.name, dep.version)
                 ELSE OnOther(dep.name, dep.version)
              /\ i' = i + 1
              /\ pc' = "loop"
    /\ UNCHANGED <<cargo_toml, cargo_lock, app_name, deps, ret, prev_ret, calls, out,
                   extract_vars>>
LoopStep ==
    /\ pc = "loop"
    /\ i <= Len(deps)
    /\ LET dep == deps[i] IN
         IF ~HasKey(dep, "name") \/ ~HasKey(dep, "version")
         THEN /\ pc' = "error"
              /\ UNCHANGED <<i, app_in_cratesio, crates, other_crates>>
         ELSE /\ IF IsCratesIo(dep)
                 THEN OnCratesIo(dep.name, dep.version)
                 ELSE OnOther(dep.name, dep.version)
              /\ i' = i + 1
              /\ pc' = "loop"
    /\ UNCHANGED <<cargo_toml, cargo_lock, app_name, deps, ret, prev_ret, calls, out,
                   extract_vars>>

\* line 207: return app_in_cratesio, crates, other_crates
Return ==
    /\ pc = "loop"
    /\ i > Len(deps)
    /\ ret' = <<<<app_in_cratesio, crates, other_crates>>>>
    /\ pc' = "returned"
    /\ UNCHANGED <<cargo_toml, cargo_lock, app_name, deps, i, app_in_cratesio, crates,
                   other_crates, prev_ret, calls, out, extract_vars>>

\* line 218: "    ('" + name + "', '" + version + "'),"
CrateLine(crate) == "    ('" \o crate[1] \o "', '" \o crate[2] \o "'),"

\* lines 213-219: what the __main__ block prints for a returned triple
Render_Always(in_cratesio, cs, others) ==
    <<"crates = [">>
    \o (IF in_cratesio THEN <<"    (name, version),">> ELSE <<>>)
    \o [n \in 1..Len(cs) |-> CrateLine(cs[n])]
    \o <<"]">>
Render_Others(in_cratesio, cs, others) ==
    IF in_cratesio \/ cs # <<>>
    THEN <<"crates = [">>
         \o (IF in_cratesio THEN <<"    (name, version),">> ELSE <<>>)
         \o [n \in 1..Len(cs) |-> CrateLine(cs[n])]
         \o [n \in 1..Len(others) |-> CrateLine(others[n])]
         \o <<"]">>
    ELSE <<>>
Render(in_cratesio, cs, others) ==
    IF in_cratesio \/ cs # <<>>
    THEN <<"crates = [">>
         \o (IF in_cratesio THEN <<"    (name, version),">> ELSE <<>>)
         \o [n \in 1..Len(cs) |-> CrateLine(cs[n])]
         \o <<"]">>
    ELSE <<>>

\* lines 210-219: run as a program, the first call's result is printed and the process ends
Main ==
    /\ pc = "returned"
    /\ calls = 1
    /\ out' = out \o Render(ret[1][1], ret[1][2], ret[1][3])
    /\ pc' = "exit"
    /\ UNCHANGED <<cargo_toml, cargo_lock, app_name, deps, i, app_in_cratesio, crates,
                   other_crates, ret, prev_ret, calls, extract_vars>>

\* line 184: imported as a module, the function is called again on the same directory
Reinvoke ==
    /\ pc = "returned"
    /\ calls < MaxCalls
    /\ prev_ret' = ret
    /\ calls' = calls + 1
    /\ pc' = "start"
    /\ UNCHANGED <<cargo_toml, cargo_lock, app_name, deps, i, app_in_cratesio, crates,
                   other_crates, ret, out, extract_vars>>

(***************************************************************************)
(* Cargo.extract_step                                                      *)
(***************************************************************************)

\* self.builddir, and the entries an archive can put at its top level
BUILDDIR == "/build"
Entries == {"a", "b"}
SourceNames == {"x.tar.gz", "y.tar.gz"}

\* self.src as the framework hands it to extract_step (line 93): one dict per source,
\* its finalpath preset to the build directory; the same source may be listed twice.
SourceSpecs ==
    {[name |-> n, path |-> "/sources/" \o n, cmd |-> "", finalpath |-> BUILDDIR] :
         n \in SourceNames}
SourceLists == UNION {[1..n -> SourceSpecs] : n \in 0..MaxSrc}

\* line 96: the directory extract_file returns after unpacking into the build directory:
\* the single entry of the build directory if it holds exactly one, else the build
\* directory itself
BaseDir(listing) ==
    IF Cardinality(listing) = 1
    THEN BUILDDIR \o "/" \o (CHOOSE e \in listing : TRUE)
    ELSE BUILDDIR

\* line 100: self.src.index(src), the first position holding a dict equal to src
Index(list, x) ==
    CHOOSE n \in 1..Len(list) : list[n] = x /\ \A m \in 1..(n - 1) : list[m] # x

\* line 109: compute_checksum(src['path'], checksum_type='sha256')
Sha256(path) == "sha256(" \o path \o ")"

\* lines 110-111: the file written and its content
ChecksumFile(cratedir, path) ==
    [file |-> BUILDDIR \o "/" \o cratedir \o "/.cargo-checksum.json",
     content |-> "{\"files\":{},\"package\":\"" \o Sha256(path) \o "\"}"]

\* lines 93-111: one iteration of the for loop over self.src. Unpacking either adds the
\* archive's entries to the build directory and yields a directory, or yields nothing
\* and the step raises.
ExtractSource ==
    /\ epc = "extract"
    /\ k < Len(src)
    /\ \E unpacked \in BOOLEAN :
         LET s == src[k + 1]
             before == builddir
             after == IF unpacked THEN builddir \cup archive[s.name] ELSE builddir
             dir == IF unpacked THEN BaseDir(after) ELSE ""
             added == after \ before
         IN /\ existing_dirs' = before
            /\ builddir' = after
            /\ srcdir' = dir
            /\ k' = k + 1
            /\ IF dir # ""
               THEN /\ src' = [src EXCEPT ![Index(src, s)].finalpath = dir]
                    /\ new_dirs' = added
                    /\ IF offline /\ Cardinality(added) = 1
                       THEN chk_writes' =
                                Append(chk_writes,
                                       [source |-> k + 1, cratedir |-> CHOOSE d \in added : TRUE]
                                       @@ ChecksumFile(CHOOSE d \in added : TRUE, s.path))
                       ELSE UNCHANGED chk_writes
                    /\ epc' = "extract"
               ELSE /\ epc' = "error"
                    /\ UNCHANGED <<src, new_dirs, chk_writes>>
    /\ UNCHANGED <<offline, archive, crate_vars>>

\* line 93: the for loop has taken every source; extract_step returns
ExtractDone ==
    /\ epc = "extract"
    /\ k = Len(src)
    /\ epc' = "done"
    /\ UNCHANGED <<src, offline, archive, builddir, existing_dirs, srcdir, new_dirs, k,
                   chk_writes, crate_vars>>

CratesIdle ==
    /\ cargo_toml = [package |-> [name |-> "foo"]]
    /\ cargo_lock = [package |-> <<>>]
    /\ pc = "idle"
    /\ app_name = ""
    /\ deps = <<>>
    /\ i = 1
    /\ app_in_cratesio = FALSE
    /\ crates = <<>>
    /\ other_crates = <<>>
    /\ ret = <<>>
    /\ prev_ret = <<>>
    /\ calls = 1
    /\ out = <<>>

InitExtract ==
    /\ src \in SourceLists
    /\ offline \in BOOLEAN
    /\ archive \in [SourceNames -> SUBSET Entries]
    /\ builddir = {}
    /\ existing_dirs = {}
    /\ srcdir = ""
    /\ new_dirs = {}
    /\ k = 0
    /\ chk_writes = <<>>
    /\ epc = "extract"
    /\ CratesIdle

NextExtract == ExtractSource \/ ExtractDone

SpecExtract == InitExtract /\ [][NextExtract]_vars

ExtractIdle ==
    /\ src = <<>>
    /\ offline = FALSE
    /\ archive = <<>>
    /\ builddir = {}
    /\ existing_dirs = {}
    /\ srcdir = ""
    /\ new_dirs = {}
    /\ k = 0
    /\ chk_writes = <<>>
    /\ epc = "idle"

Init ==
    /\ cargo_toml \in Descriptors
    /\ cargo_lock \in LockFiles
    /\ pc = "start"
    /\ app_name = ""
    /\ deps = <<>>
    /\ i = 1
    /\ app_in_cratesio = FALSE
    /\ crates = <<>>
    /\ other_crates = <<>>
    /\ ret = <<>>
    /\ prev_ret = <<>>
    /\ calls = 1
    /\ out = <<>>
    /\ ExtractIdle

Next == Call \/ LoopStep \/ Return \/ Main \/ Reinvoke

Spec == Init /\ [][Next]_vars

(***************************************************************************)
(* Properties of generate_crate_list and of the __main__ block             *)
(***************************************************************************)

\* What the properties say about a lock entry, stated on the entry itself.
RegistrySourced(e) == "source" \in DOMAIN e /\ e.source = CRATESIO_INDEX
WellFormedEntry(e) == "name" \in DOMAIN e /\ "version" \in DOMAIN e
PairOf(e) == <<e.name, e.version>>
Project(s) == [n \in 1..Len(s) |-> PairOf(s[n])]
Occurrences(s, x) == Cardinality({n \in 1..Len(s) : s[n] = x})

\* The lock list, when the lock file has one.
LockList == IF "package" \in DOMAIN cargo_lock THEN cargo_lock.package ELSE <<>>
\* The entries the for loop has gone through.
Processed == SubSeq(deps, 1, i - 1)
InLoop == pc \in {"loop", "returned", "exit"}
SelfEntries(s, app) ==
    LET IsSelf(e) == RegistrySourced(e) /\ e.name = app IN SelectSeq(s, IsSelf)
RegistryDeps(s, app) ==
    LET IsDep(e) == RegistrySourced(e) /\ e.name # app IN SelectSeq(s, IsDep)
OtherEntries(s) ==
    LET IsOther(e) == ~RegistrySourced(e) IN SelectSeq(s, IsOther)
\* The for loop takes entry deps[i] in this step.
TakesEntry == pc = "loop" /\ i <= Len(deps) /\ i' = i + 1

\* C1 (as stated): at return, len(registryCrates) + len(otherCrates)
\* + (1 if selfInRegistry else 0) equals the number of lock entries.
C1_CountAsStated ==
    pc = "returned" =>
        Len(ret[1][2]) + Len(ret[1][3]) + (IF ret[1][1] THEN 1 ELSE 0) = Len(LockList)

\* C1 (amended): at return, len(registryCrates) + len(otherCrates) + (the number of
\* lock entries whose name is the package name and whose source is the registry marker)
\* equals the number of lock entries; with at most one such entry that number is
\* (1 if selfInRegistry else 0).
C1_CountAmended ==
    pc = "returned" =>
        LET nself == Len(SelfEntries(LockList, cargo_toml.package.name)) IN
        /\ Len(ret[1][2]) + Len(ret[1][3]) + nself = Len(LockList)
        /\ nself <= 1 => nself = (IF ret[1][1] THEN 1 ELSE 0)

C1_Witness ==
    /\ pc = "returned"
    /\ Len(SelfEntries(LockList, cargo_toml.package.name)) = 2
    /\ Len(ret[1][2]) = 1

\* C2: every step of the loop puts the entry it takes in exactly one of crates and
\* other_crates, or in neither, and in neither only if the entry's name is the package
\* name; the lists change in no other way.
C2_ExactlyOneList ==
    [][TakesEntry =>
         LET e == deps[i] IN
         \/ crates' = Append(crates, PairOf(e)) /\ other_crates' = other_crates
         \/ other_crates' = Append(other_crates, PairOf(e)) /\ crates' = crates
         \/ crates' = crates /\ other_crates' = other_crates /\ e.name = app_name]_vars

C2_Witness ==
    /\ pc = "returned"
    /\ Len(deps) = 3
    /\ ret[1][1]
    /\ Len(ret[1][2]) = 1
    /\ Len(ret[1][3]) = 1

\* C3: a registry-sourced entry named as the package contributes to neither list: crates
\* holds no pair with the package name, and other_crates holds a pair with the package
\* name as often as the entries gone through that are not registry-sourced hold it.
C3_SelfExcluded ==
    InLoop =>
        /\ \A n \in 1..Len(crates) : crates[n][1] # app_name
        /\ \A v \in Versions :
               Occurrences(other_crates, <<app_name, v>>)
                   = Occurrences(Project(OtherEntries(Processed)), <<app_name, v>>)

C3_Witness ==
    /\ pc = "returned"
    /\ Len(SelfEntries(deps, app_name)) >= 1
    /\ Len(ret[1][2]) >= 1
    /\ \E n \in 1..Len(ret[1][3]) : ret[1][3][n][1] = app_name

\* C4: a step that takes an entry with no source, or with a source other than the
\* registry marker, appends (name, version) to other_crates and leaves crates and
\* app_in_cratesio as they are, whatever the entry's name.
C4_NoSourceIsOther ==
    [][(TakesEntry /\ ~RegistrySourced(deps[i])) =>
         /\ other_crates' = Append(other_crates, PairOf(deps[i]))
         /\ crates' = crates
         /\ app_in_cratesio' = app_in_cratesio]_vars

C4_Witness ==
    /\ pc = "returned"
    /\ ~ret[1][1]
    /\ \E m, n \in 1..Len(deps) :
           /\ "source" \notin DOMAIN deps[m] /\ deps[m].name = app_name
           /\ "source" \in DOMAIN deps[n] /\ deps[n].source = OTHER_SOURCE
    /\ Len(ret[1][3]) >= 2

\* C5: crates is the (name, version) projection of the registry-sourced entries gone
\* through that are not named as the package, other_crates that of the entries that are
\* not registry-sourced, both in lock-list order; the returned lists are those of the
\* whole lock list.
C5_OrderPreserved ==
    /\ InLoop =>
           /\ crates = Project(RegistryDeps(Processed, app_name))
           /\ other_crates = Project(OtherEntries(Processed))
    /\ pc = "returned" =>
           /\ ret[1][2] = Project(RegistryDeps(LockList, cargo_toml.package.name))
           /\ ret[1][3] = Project(OtherEntries(LockList))

C5_Witness ==
    /\ pc = "returned"
    /\ ret[1][2] = <<<<"bar", "2.0">>, <<"bar", "1.0">>>>
    /\ Len(ret[1][3]) = 1

\* C6: the returned flag is true exactly when some lock entry is registry-sourced and
\* named as the package; when no entry is named as the package the flag is false and
\* crates holds every registry-sourced entry; an empty lock list gives (False, [], []).
C6_SelfFlag ==
    pc = "returned" =>
        LET app == cargo_toml.package.name IN
        /\ ret[1][1] <=> \E n \in 1..Len(LockList) :
                             RegistrySourced(LockList[n]) /\ LockList[n].name = app
        /\ (\A n \in 1..Len(LockList) : LockList[n].name # app) =>
               /\ ~ret[1][1]
               /\ \A n \in 1..Len(LockList) :
                      RegistrySourced(LockList[n]) =>
                          Occurrences(ret[1][2], PairOf(LockList[n]))
                              = Occurrences(Project(SelectSeq(LockList, RegistrySourced)),
                                            PairOf(LockList[n]))
        /\ LockList = <<>> => ret[1] = <<FALSE, <<>>, <<>>>>

C6_Witness ==
    /\ pc = "returned"
    /\ \A n \in 1..Len(LockList) : LockList[n].name # cargo_toml.package.name
    /\ Len(SelectSeq(LockList, RegistrySourced)) >= 2
    /\ ~ret[1][1]

\* C7: with package.name absent from the descriptor, or a lock entry without name or
\* version, nothing is returned and nothing is printed: the loop never gets past the
\* first such entry, the call ends in the error state, and nothing runs after it.
Malformed ==
    \/ "name" \notin DOMAIN cargo_toml.package
    \/ \E n \in 1..Len(LockList) : ~WellFormedEntry(LockList[n])

C7_ErrorNoResult ==
    /\ Malformed =>
           /\ pc \in {"start", "loop", "error"}
           /\ ret = <<>>
           /\ out = <<>>
           /\ pc = "loop" => \E n \in i..Len(deps) : ~WellFormedEntry(deps[n])
    /\ pc = "error" => ret = <<>> /\ out = <<>> /\ ~ENABLED Next

C7_Witness ==
    /\ pc = "error"
    /\ i = Len(deps)
    /\ i = 3
    /\ deps[i] = [name |-> "bar"]
    /\ Len(crates) = 1
    /\ Len(other_crates) = 1
    /\ ret = <<>>

\* C8: no step changes the two manifests, and a call on the same manifests returns what
\* the call before it returned.
C8_Idempotent ==
    [][/\ cargo_toml' = cargo_toml
       /\ cargo_lock' = cargo_lock
       /\ (pc' = "returned" /\ prev_ret' # <<>>) => ret' = prev_ret']_vars

C8_Witness ==
    /\ pc = "returned"
    /\ calls = 2
    /\ prev_ret # <<>>
    /\ ret[1][1]
    /\ Len(ret[1][2]) >= 1
    /\ Len(ret[1][3]) >= 1

\* C9: nothing is printed before the program ends; at its end the output is empty when
\* the flag is false and crates is empty, and otherwise is the opening line, the
\* placeholder line exactly when the flag is true, one line per element of crates in
\* order, and the closing line, and nothing else.
C9_Rendering ==
    /\ pc # "exit" => out = <<>>
    /\ pc = "exit" =>
           LET flag == ret[1][1]
               cs == ret[1][2]
               off == IF flag THEN 2 ELSE 1
           IN IF ~flag /\ cs = <<>>
              THEN out = <<>>
              ELSE /\ Len(out) = off + Len(cs) + 1
                   /\ out[1] = "crates = ["
                   /\ flag <=> out[2] = "    (name, version),"
                   /\ \A n \in 1..Len(cs) :
                          out[off + n] = "    ('" \o cs[n][1] \o "', '" \o cs[n][2] \o "'),"
                   /\ out[Len(out)] = "]"

C9_Witness ==
    /\ pc = "exit"
    /\ ret[1][1]
    /\ Len(ret[1][2]) = 1
    /\ Len(ret[1][3]) = 1
    /\ Len(out) = 4

(***************************************************************************)
(* Properties of Cargo.extract_step                                        *)
(***************************************************************************)

\* The write_file calls made while the loop was at source n.
WritesFor(n) == {m \in 1..Len(chk_writes) : chk_writes[m].source = n}

\* C10 (checksum part): after the loop has taken source k without raising, a checksum
\* file was written for it exactly when offline is set and the build directory gained
\* exactly one entry since the listing taken before unpacking; it is written once, inside
\* that entry, and holds the sha256 of the source's archive.
C10_ChecksumWritten ==
    (epc \in {"extract", "done"} /\ k >= 1) =>
        /\ WritesFor(k) # {} <=> (offline /\ Cardinality(builddir \ existing_dirs) = 1)
        /\ Cardinality(WritesFor(k)) <= 1
        /\ \A m \in WritesFor(k) :
               /\ chk_writes[m].cratedir \in builddir \ existing_dirs
               /\ chk_writes[m].file
                      = BUILDDIR \o "/" \o chk_writes[m].cratedir \o "/.cargo-checksum.json"
               /\ chk_writes[m].content
                      = "{\"files\":{},\"package\":\"" \o Sha256(src[k].path) \o "\"}"

\* C10 (as stated): the sources are taken in order; after the loop has taken source k,
\* either the step has raised and nothing runs any more, or the directory unpacking
\* yielded is source k's finalpath and the checksum part holds.
C10_ExtractStep ==
    /\ k <= Len(src)
    /\ epc = "error" => ~ENABLED NextExtract
    /\ (epc \in {"extract", "done"} /\ k >= 1) => src[k].finalpath = srcdir
    /\ C10_ChecksumWritten

\* A run of extract_step that unpacked two sources and wrote a checksum file for each.
C10_Witness ==
    /\ epc = "done"
    /\ k = 2
    /\ Len(chk_writes) = 2

====
